---------------------------- MODULE Spec2Model ----------------------------
(***************************************************************************)
(* A model of SiEPIC/core.py: the Net / Pin / Component data model and the *)
(* WaveguideGUI / MonteCarloGUI dialogs.                                   *)
(*                                                                         *)
(* Python objects are records, Python strings are tuples of one-character  *)
(* strings (so that split, lower and replace can be computed), a Python    *)
(* list is an object of the heap `lists` that fields refer to by its id,   *)
(* and a raised exception is an outcome recorded in `ret`.                 *)
(* Coordinates are integer database units, as pya.Point / pya.Box have.    *)
(***************************************************************************)
EXTENDS Integers, Sequences, FiniteSets, TLC

VARIABLES
    components,       \* the Component objects constructed so far, in order
    lists,            \* heap of Python list objects: list id -> its items
    technology_name,  \* TECHNOLOGY['technology_name'] of the active technology
    pin,              \* the Pin object under construction / transformation
    waveguide_gui,    \* the WaveguideGUI object of the process
    monte_carlo_gui,  \* the MonteCarloGUI object of the process
    ret               \* outcome of the most recent call: value or exception

vars == <<components, lists, technology_name, pin, waveguide_gui,
          monte_carlo_gui, ret>>

(***************************************************************************)
(* Bounds of the model.                                                    *)
(***************************************************************************)
MaxParamLen == 4      \* params strings enumerated exhaustively up to here
MaxTokens == 3        \* params strings joined from up to this many tokens
MaxComponents == 2    \* Components alive at once
MaxPins == 2          \* length of a pins list

(***************************************************************************)
(* Python values.                                                          *)
(***************************************************************************)
\* None where an object is expected (all objects are records)
None == [none |-> TRUE]
\* None where a string is expected: a tuple no string of characters equals
NoneStr == <<"None">>

\* the outcome of a call: a returned value, or a raised exception
Return(op, v) == [op |-> op, exc |-> "none", val |-> v]
Raise(op, e) == [op |-> op, exc |-> e, val |-> None]
NoCall == [op |-> "none", exc |-> "none", val |-> None]

(***************************************************************************)
(* Python str methods, on tuples of characters.                            *)
(***************************************************************************)
Digits == {"0", "1", "2", "3", "4", "5", "6", "7", "8", "9"}

DigitVal(c) ==
    CASE c = "0" -> 0 [] c = "1" -> 1 [] c = "2" -> 2 [] c = "3" -> 3
      [] c = "4" -> 4 [] c = "5" -> 5 [] c = "6" -> 6 [] c = "7" -> 7
      [] c = "8" -> 8 [] c = "9" -> 9

\* c in s, for a character c
Contains(s, c) == \E i \in 1..Len(s) : s[i] = c

\* s.split(sep) for a one-character separator: always at least one piece
RECURSIVE split(_, _)
split(s, sep) ==
    IF ~Contains(s, sep)
    THEN <<s>>
    ELSE LET k == CHOOSE i \in 1..Len(s) :
                      s[i] = sep /\ \A j \in 1..(i - 1) : s[j] # sep
         IN  <<SubSeq(s, 1, k - 1)>> \o split(SubSeq(s, k + 1, Len(s)), sep)

LowerChar(c) ==
    CASE c = "E" -> "e" [] c = "L" -> "l" [] c = "W" -> "w" [] c = "B" -> "b"
      [] c = "M" -> "m" [] OTHER -> c

\* s.lower()
lower(s) == [i \in 1..Len(s) |-> LowerChar(s[i])]

\* s.replace(old, new) for a one-character old and any string new
RECURSIVE replace(_, _, _)
replace(s, old, new) ==
    IF s = <<>> THEN <<>>
    ELSE (IF Head(s) = old THEN new ELSE <<Head(s)>>)
             \o replace(Tail(s), old, new)

(***************************************************************************)
(* Python numbers.  A value of the mapping params_dict returns is          *)
(*   an int      [t |-> "int",   m |-> n, e |-> 0, s |-> <<>>]             *)
(*   a float     [t |-> "float", m, e, s |-> <<>>]  standing for m * 10^e, *)
(*               m without trailing zeros: one record per number           *)
(*   a string    [t |-> "str",   m |-> 0, e |-> 0, s |-> the string].      *)
(* Decimal arithmetic is exact; float() of the product is taken as the     *)
(* number itself (binary rounding of the double is not modelled).          *)
(***************************************************************************)
IntVal(n) == [t |-> "int", m |-> n, e |-> 0, s |-> <<>>]
StrVal(s) == [t |-> "str", m |-> 0, e |-> 0, s |-> s]

RECURSIVE Normalize(_, _)
Normalize(m, e) ==
    IF m = 0 THEN [m |-> 0, e |-> 0]
    ELSE IF m % 10 = 0 THEN Normalize(m \div 10, e + 1)
    ELSE [m |-> m, e |-> e]

FloatVal(m, e) ==
    LET n == Normalize(m, e)
    IN  [t |-> "float", m |-> n.m, e |-> n.e, s |-> <<>>]

AllDigits(s) == \A i \in 1..Len(s) : s[i] \in Digits

\* the number a non-empty string of digits writes
RECURSIVE DigitsValue(_)
DigitsValue(s) ==
    IF s = <<>> THEN 0
    ELSE 10 * DigitsValue(SubSeq(s, 1, Len(s) - 1)) + DigitVal(s[Len(s)])

HasSign(s) == s # <<>> /\ s[1] \in {"+", "-"}
Unsigned(s) == IF HasSign(s) THEN Tail(s) ELSE s
SignOf(s) == IF s # <<>> /\ s[1] = "-" THEN -1 ELSE 1

\* a signed decimal integer literal: [+-]digits
IsIntLiteral(s) == Unsigned(s) # <<>> /\ AllDigits(Unsigned(s))
IntLiteralValue(s) == SignOf(s) * DigitsValue(Unsigned(s))

\* int(s): [ok, v]; not ok is ValueError
int(s) ==
    IF IsIntLiteral(s)
    THEN [ok |-> TRUE, v |-> IntLiteralValue(s)]
    ELSE [ok |-> FALSE, v |-> 0]

\* Decimal(s): [ok, m, e] for m * 10^e; not ok is decimal.InvalidOperation.
\* The numeric grammar: [sign] (digits [. [digits]] | . digits) [e [sign] digits]
Decimal(s) ==
    LET body   == lower(Unsigned(s))
        parts  == split(body, "e")
        mant   == split(parts[1], ".")
        ipart  == mant[1]
        fpart  == IF Len(mant) = 2 THEN mant[2] ELSE <<>>
        okMant == /\ Len(mant) <= 2
                  /\ AllDigits(ipart) /\ AllDigits(fpart)
                  /\ ipart \o fpart # <<>>
        okExp  == Len(parts) = 1 \/ (Len(parts) = 2 /\ IsIntLiteral(parts[2]))
        ex     == IF Len(parts) = 2 THEN IntLiteralValue(parts[2]) ELSE 0
    IN  IF okMant /\ okExp
        THEN [ok |-> TRUE, m |-> SignOf(s) * DigitsValue(ipart \o fpart),
              e |-> ex - Len(fpart)]
        ELSE [ok |-> FALSE, m |-> 0, e |-> 0]

(***************************************************************************)
(* Component.params_dict                                                   *)
(***************************************************************************)
\* string.replace('u','e-6').replace('n','e-9')
UnitSuffixes(string) ==
    replace(replace(string, "u", <<"e", "-", "6">>), "n", <<"e", "-", "9">>)

\* float(Decimal(string) * Decimal('1e6')): [ok, q]
InMicrons(string) ==
    LET d == Decimal(string)
    IN  IF d.ok THEN [ok |-> TRUE, q |-> FloatVal(d.m, d.e + 6)]
        ELSE [ok |-> FALSE, q |-> IntVal(0)]

\* the test that sends a value to int()
IsIntegerBranch(v) == ~Contains(v, ".") /\ ~Contains(lower(v), "e")

\* the body of the loop for one token s: the entry it stores, or the exception
ParamsEntry(s) ==
    LET kv == split(s, "=")
    IN  IF Len(kv) < 2 THEN [exc |-> "IndexError", k |-> <<>>, q |-> IntVal(0)]
        ELSE IF IsIntegerBranch(kv[2])
        THEN (IF int(kv[2]).ok
              THEN [exc |-> "none", k |-> kv[1], q |-> IntVal(int(kv[2]).v)]
              ELSE [exc |-> "ValueError", k |-> <<>>, q |-> IntVal(0)])
        ELSE IF Contains(kv[2], "[")
        THEN [exc |-> "none", k |-> kv[1], q |-> StrVal(kv[2])]
        ELSE LET f == InMicrons(UnitSuffixes(kv[2]))
             IN  IF f.ok THEN [exc |-> "none", k |-> kv[1], q |-> f.q]
                 ELSE [exc |-> "InvalidOperation", k |-> <<>>, q |-> IntVal(0)]

\* a loop without the test for the empty token
SkipToken_never(s) == FALSE

\* whether the loop skips the token
SkipToken(s) == s = <<>>

\* for s in dicta, from the i-th token on, with dictb as built so far
RECURSIVE ParamsLoop(_, _, _)
ParamsLoop(dicta, i, dictb) ==
    IF i > Len(dicta) THEN Return("params_dict", dictb)
    ELSE IF SkipToken(dicta[i]) THEN ParamsLoop(dicta, i + 1, dictb)
    ELSE LET en == ParamsEntry(dicta[i])
         IN  IF en.exc # "none" THEN Raise("params_dict", en.exc)
             ELSE ParamsLoop(dicta, i + 1,
                             [k \in DOMAIN dictb \cup {en.k} |->
                                 IF k = en.k THEN en.q ELSE dictb[k]])

params_dict(params) ==
    IF params = NoneStr \/ params = <<>>
    THEN Return("params_dict", <<>>)
    ELSE ParamsLoop(split(params, " "), 1, <<>>)


(***************************************************************************)
(* Geometry of the layout database (pya): integer points, boxes, polygons. *)
(***************************************************************************)
Point(x, y) == [x |-> x, y |-> y]
Box(l, b, r, t) == [l |-> l, b |-> b, r |-> r, t |-> t]
Polygon(pts) == [pts |-> pts]

SetMin(S) == CHOOSE m \in S : \A n \in S : m <= n
SetMax(S) == CHOOSE m \in S : \A n \in S : m >= n

\* polygon.bbox()
bbox(polygon) ==
    LET xs == {polygon.pts[i].x : i \in 1..Len(polygon.pts)}
        ys == {polygon.pts[i].y : i \in 1..Len(polygon.pts)}
    IN  Box(SetMin(xs), SetMin(ys), SetMax(xs), SetMax(ys))

\* box.center(): an integer Point, halves cut off
center(box) ==
    Point(box.l + (box.r - box.l) \div 2, box.b + (box.t - box.b) \div 2)

\* TECHNOLOGY['dbu'], micrometres per database unit, as the fraction num/den
dbu == [num |-> 1, den |-> 1000]

\* point.to_dtype(dbu): the DPoint (x * num / den, y * num / den)
to_dtype(p, u) == [x |-> p.x * u.num, y |-> p.y * u.num, den |-> u.den]

(***************************************************************************)
(* Component                                                               *)
(***************************************************************************)
\* the list object the default argument pins=[] evaluates to, once, when the
\* def statement runs: the first object of the heap
DefaultPins == 1

\* _globals.INTC_ELEMENTS: the compact models known, by lower-case key
INTC_ELEMENTS ==
    { <<"l", ":", ":", "b", ":", ":", "w", "g">>,
      <<"d", "e", "s", "i", "g", "n", " ", "k", "i", "t", "s", ":", ":",
        "e", "b", ":", ":", "w", "g">> }

\* truth value of a str-or-None: None and '' are false
Truthy(s) == s # NoneStr /\ s # <<>>

\* the fields __init__ assigns, given the list object pins refers to;
\* polygon is not None here (see Component__init__)
NewComponent(component, library, params, pinsRef, heap, polygon) ==
    [ component |-> component,
      library   |-> library,
      pins      |-> pinsRef,
      npins     |-> Len(heap[pinsRef]),
      params    |-> params,
      polygon   |-> polygon,
      center    |-> center(bbox(polygon)),
      Dcenter   |-> to_dtype(center(bbox(polygon)), dbu) ]

\* Component(component=.., library=.., params=.., pins=.., polygon=..).
\* pinsArg.passed: the caller passes a list it has just built (a new object
\* holding pinsArg.items); otherwise the default argument is used.
\* polygon None: polygon.bbox() raises, no Component comes to exist, and the
\* list the caller built for it is garbage.
Component__init__(component, library, params, pinsArg, polygon) ==
    /\ Len(components) < MaxComponents
    /\ LET heap == IF pinsArg.passed THEN Append(lists, pinsArg.items)
                   ELSE lists
           ref  == IF pinsArg.passed THEN Len(heap) ELSE DefaultPins
       IN  IF polygon = None
           THEN /\ components' = components
                /\ lists' = lists
                /\ ret' = Raise("Component", "AttributeError")
           ELSE /\ components' = Append(components,
                       NewComponent(component, library, params, ref,
                                    heap, polygon))
                /\ lists' = heap
                /\ ret' = Return("Component", Len(components) + 1)
    /\ UNCHANGED <<technology_name, pin, waveguide_gui, monte_carlo_gui>>

\* the key has_model looks up when library and component are both truthy
LibraryKey(library, component) ==
    replace(lower(library), "/", <<":", ":">>) \o <<":", ":">>
        \o lower(component)

\* the key has_model looks up otherwise
DesignKitKey(tech, component) ==
    <<"d", "e", "s", "i", "g", "n", " ", "k", "i", "t", "s", ":", ":">>
        \o lower(tech) \o <<":", ":">> \o lower(component)

\* c.has_model(): the outcome; component None reaches None.lower()
has_model(c, tech) ==
    IF Truthy(c.library) /\ Truthy(c.component)
    THEN Return("has_model", LibraryKey(c.library, c.component) \in INTC_ELEMENTS)
    ELSE IF c.component = NoneStr
    THEN Raise("has_model", "AttributeError")
    ELSE Return("has_model", DesignKitKey(tech, c.component) \in INTC_ELEMENTS)

\* a call of components[i].has_model()
Component_has_model(i) ==
    /\ i \in 1..Len(components)
    /\ ret' = has_model(components[i], technology_name)
    /\ UNCHANGED <<components, lists, technology_name, pin, waveguide_gui, monte_carlo_gui>>

\* a call of components[i].params_dict()
Component_params_dict(i) ==
    /\ i \in 1..Len(components)
    /\ ret' = params_dict(components[i].params)
    /\ UNCHANGED <<components, lists, technology_name, pin, waveguide_gui, monte_carlo_gui>>

\* what display assigns to c.npins
DisplayNpins(c, heap) == Len(heap[c.pins])

\* a call of components[i].display(): npins is assigned first, then the text
\* is formatted, which calls has_model()
Component_display(i) ==
    /\ i \in 1..Len(components)
    /\ LET c  == components[i]
           n  == DisplayNpins(c, lists)
           hm == has_model(c, technology_name)
       IN  /\ components' = [components EXCEPT ![i].npins = n]
           /\ ret' = IF hm.exc # "none" THEN Raise("display", hm.exc)
                     ELSE Return("display",
                                 [ component |-> c.component,
                                   Dcenter   |-> c.Dcenter,
                                   npins     |-> n,
                                   pins      |-> lists[c.pins],
                                   has_model |-> hm.val,
                                   params    |-> c.params ])
    /\ UNCHANGED <<lists, technology_name, pin, waveguide_gui, monte_carlo_gui>>

(***************************************************************************)
(* What the code around a Component does to its public fields.             *)
(***************************************************************************)
\* the pins a Component's list may hold, by name
PinNames == {"opt1", "elec1"}

\* components[i].pins.append(p)
AppendPin(i, p) ==
    /\ i \in 1..Len(components)
    /\ Len(lists[components[i].pins]) < MaxPins
    /\ lists' = [lists EXCEPT ![components[i].pins] = Append(@, p)]
    /\ UNCHANGED <<components, technology_name, pin, ret, waveguide_gui, monte_carlo_gui>>

\* components[i].pins.pop()
RemovePin(i) ==
    /\ i \in 1..Len(components)
    /\ lists[components[i].pins] # <<>>
    /\ lists' = [lists EXCEPT ![components[i].pins] = SubSeq(@, 1, Len(@) - 1)]
    /\ UNCHANGED <<components, technology_name, pin, ret, waveguide_gui, monte_carlo_gui>>

\* components[i].polygon = polygon
SetPolygon(i, polygon) ==
    /\ i \in 1..Len(components)
    /\ components' = [components EXCEPT ![i].polygon = polygon]
    /\ UNCHANGED <<lists, technology_name, pin, ret, waveguide_gui, monte_carlo_gui>>

\* the user makes another technology the active one
ChangeTechnology(tech) ==
    /\ tech # technology_name
    /\ technology_name' = tech
    /\ UNCHANGED <<components, lists, pin, ret, waveguide_gui, monte_carlo_gui>>

(***************************************************************************)
(* Inputs.                                                                 *)
(***************************************************************************)
Technologies == { <<"E", "B">>, <<"M">> }

ComponentNames == { NoneStr, <<>>, <<"W", "g">> }
Libraries == { NoneStr, <<>>, <<"L", "/", "b">>, <<"M">> }

Polygons ==
    { Polygon(<<Point(0, 0), Point(4, 0), Point(4, 2), Point(0, 2)>>),
      Polygon(<<Point(2, 2), Point(6, 2), Point(6, 8)>>) }

DefaultPolygon == Polygon(<<Point(0, 0), Point(4, 0), Point(4, 2), Point(0, 2)>>)

PinsArgs ==
    { [passed |-> FALSE, items |-> <<>>],
      [passed |-> TRUE, items |-> <<>>],
      [passed |-> TRUE, items |-> <<"opt1">>] }

\* characters of the params strings enumerated exhaustively
ParamAlphabet == {"a", "=", " ", "5", ".", "u", "n", "e", "["}

\* tokens of the params strings joined from tokens; the empty token makes
\* runs of spaces
ParamTokens ==
    { <<>>,
      <<"a", "=", "5">>,
      <<"b", "=", "1", ".", "5", "u">>,
      <<"c", "=", "[", "1", ",", "2", ",", "3", "]">>,
      <<"w", "g", "_", "w", "i", "d", "t", "h", "=", "0", ".", "5">>,
      <<"r", "a", "d", "i", "u", "s", "=", "5", "u">>,
      <<"a", "=", "2", ".", "5", "n">>,
      <<"c", "=", "[", "1", ".", "5", ",", "2", "]">>,
      <<"a", "=", "1", "E", "3">>,
      <<"b", "=", "-", "7">> }

\* ' '.join(ts)
RECURSIVE Join(_)
Join(ts) ==
    IF Len(ts) = 1 THEN ts[1]
    ELSE ts[1] \o <<" ">> \o Join(Tail(ts))

ParamInputs ==
    {NoneStr}
        \cup UNION { [1..n -> ParamAlphabet] : n \in 0..MaxParamLen }
        \cup { Join(ts) : ts \in UNION { [1..n -> ParamTokens] : n \in 1..MaxTokens } }

(***************************************************************************)
(* WaveguideGUI and MonteCarloGUI.  A dialog object keeps                  *)
(*   loaded_technology, clicked   the attributes of that name              *)
(*   waveguides / montecarlos     the table update() loaded                *)
(*   configuration / technology   the combo box: its items and currentText *)
(*   width / std_dev              the text of the field of that name       *)
(*   pc                           where a get_parameters call stands:      *)
(*        "idle"   no call in progress                                     *)
(*        "exec_"  in window.exec_(): the modal dialog is open             *)
(*        "ok", "close"  the handler of that name has closed the window    *)
(*                 and exec_() is returning into get_parameters            *)
(* Of the text fields the parameter record is read from, one is kept for   *)
(* each dialog; the others are read the same way, with float().            *)
(***************************************************************************)
\* a table the loader returned: a list of records
List(items) == [list |-> TRUE, items |-> items]
\* what cannot be iterated: None, or the attribute not assigned yet
NoList == [list |-> FALSE, items |-> <<>>]

\* the technologies the dialogs are opened under
GUITechnologies == Technologies \cup { <<"S", "i", "N">> }

\* utils.load_Waveguides_by_Tech(tech_name): the waveguide records of the
\* technology, each with a name and a width text; nothing for a technology
\* that has no WAVEGUIDES.xml
load_Waveguides_by_Tech(tech_name) ==
    CASE tech_name = <<"E", "B">> ->
            List(<< [name |-> <<"S", "t", "r", "i", "p">>, width |-> <<"0", ".", "5">>],
                    [name |-> <<"R", "i", "b">>, width |-> <<"3">>] >>)
      [] tech_name = <<"S", "i", "N">> ->
            List(<< [name |-> <<"S", "i", "N">>, width |-> <<"0", ".", "7", "5">>] >>)
      [] OTHER -> NoList

\* utils.load_Monte_Carlo(): the Monte Carlo records of the active
\* technology, each with a name and a std_dev text; nothing for a
\* technology that has no MONTECARLO.xml
load_Monte_Carlo(tech_name) ==
    CASE tech_name = <<"E", "B">> ->
            List(<< [name |-> <<"E", "B">>, std_dev |-> <<"5">>],
                    [name |-> <<"E", "B", "2">>, std_dev |-> <<"3", ".", "5">>] >>)
      [] tech_name = <<"S", "i", "N">> ->
            List(<< [name |-> <<"S", "i", "N">>, std_dev |-> <<"2">>] >>)
      [] OTHER -> NoList

\* float(s) of the text of a field: [ok, v]; not ok is ValueError
float(s) ==
    LET d == Decimal(s)
    IN  IF d.ok THEN [ok |-> TRUE, v |-> FloatVal(d.m, d.e)]
        ELSE [ok |-> FALSE, v |-> FloatVal(0, 0)]

\* the names of the records of a table
Names(table) == [k \in 1..Len(table.items) |-> table.items[k].name]

\* [t for t in table if t['name'] == name]
ByName(table, name) == SelectSeq(table.items, LAMBDA t : t.name = name)

\* an empty QComboBox: no items, currentText ''
EmptyComboBox == [items |-> <<>>, currentText |-> <<>>]

\* WaveguideGUI(): the object __init__ leaves
NewWaveguideGUI ==
    [ loaded_technology |-> <<>>,
      clicked           |-> TRUE,
      waveguides        |-> NoList,
      configuration     |-> EmptyComboBox,
      width             |-> <<>>,
      pc                |-> "idle" ]

\* config_changed(val), the slot of configuration.currentIndexChanged: the
\* width field takes the width of the selected waveguide, of the first
\* waveguide when nothing is selected; where a lookup raises, the slot ends
\* before it assigns the field
WaveguideGUI_config_changed(g) ==
    IF ~g.waveguides.list THEN g
    ELSE LET waveguide_type ==
                 IF g.configuration.currentText = <<>>
                 THEN (IF g.waveguides.items = <<>> THEN <<>>
                       ELSE g.waveguides.items[1].name)
                 ELSE g.configuration.currentText
             params == ByName(g.waveguides, waveguide_type)
         IN  IF params = <<>> THEN g
             ELSE [g EXCEPT !.width = params[1].width]

\* configuration.clear(): the current index of a combo box that had items
\* changes to -1, which runs the slot
WaveguideGUI_clear(g) ==
    IF g.configuration.items = <<>> THEN g
    ELSE WaveguideGUI_config_changed([g EXCEPT !.configuration = EmptyComboBox])

\* configuration.addItems(options) on the cleared combo box: the first item
\* becomes the current one, which runs the slot
WaveguideGUI_addItems(g, options) ==
    IF options = <<>> THEN g
    ELSE WaveguideGUI_config_changed(
             [g EXCEPT !.configuration =
                  [items |-> options, currentText |-> options[1]]])

\* update(): [gui, exc]; the combo box is cleared and self.waveguides is
\* assigned before the names are read, the items are added after
WaveguideGUI_update(g, tech_name) ==
    LET cleared == WaveguideGUI_clear(g)
        loaded  == [cleared EXCEPT !.waveguides = load_Waveguides_by_Tech(tech_name)]
    IN  IF ~loaded.waveguides.list
        THEN [gui |-> loaded, exc |-> "Exception"]
        ELSE [gui |-> WaveguideGUI_addItems(loaded, Names(loaded.waveguides)),
              exc |-> "none"]

\* get_parameters from "if not self.clicked" on: [gui, ret]
WaveguideGUI_result(g, tech_name) ==
    IF ~g.clicked
    THEN [gui |-> [g EXCEPT !.loaded_technology = <<>>],
          ret |-> Return("WaveguideGUI.get_parameters", None)]
    ELSE LET h == [g EXCEPT !.loaded_technology = tech_name]
             w == float(g.width)
             waveguide_type == g.configuration.currentText
         IN  IF ~w.ok
             THEN [gui |-> h, ret |-> Raise("WaveguideGUI.get_parameters", "ValueError")]
             ELSE IF waveguide_type = <<>>
             THEN [gui |-> h, ret |-> Return("WaveguideGUI.get_parameters", None)]
             ELSE IF ~g.waveguides.list
             THEN [gui |-> h, ret |-> Raise("WaveguideGUI.get_parameters", "TypeError")]
             ELSE IF ByName(g.waveguides, waveguide_type) = <<>>
             THEN [gui |-> h, ret |-> Raise("WaveguideGUI.get_parameters", "IndexError")]
             ELSE [gui |-> h,
                   ret |-> Return("WaveguideGUI.get_parameters",
                                  [ width          |-> w.v,
                                    waveguide_type |-> waveguide_type ])]

\* no get_parameters call is in progress: the host is not in a modal dialog
Idle == waveguide_gui.pc = "idle" /\ monte_carlo_gui.pc = "idle"

\* waveguide_gui.get_parameters(show) up to window.exec_(): update() when
\* another technology is loaded, then the dialog; the dialog alone when show
\* is set; neither, and the call runs to its end, when the technology is
\* loaded and show is not set
WaveguideGUI_get_parameters(show) ==
    /\ Idle
    /\ IF waveguide_gui.loaded_technology # technology_name
       THEN LET u == WaveguideGUI_update(waveguide_gui, technology_name)
            IN  IF u.exc # "none"
                THEN /\ waveguide_gui' = u.gui
                     /\ ret' = Raise("WaveguideGUI.get_parameters", u.exc)
                ELSE /\ waveguide_gui' = [u.gui EXCEPT !.pc = "exec_"]
                     /\ ret' = ret
       ELSE IF show
       THEN /\ waveguide_gui' = [waveguide_gui EXCEPT !.pc = "exec_"]
            /\ ret' = ret
       ELSE LET r == WaveguideGUI_result(waveguide_gui, technology_name)
            IN  /\ waveguide_gui' = r.gui
                /\ ret' = r.ret
    /\ UNCHANGED <<components, lists, technology_name, pin, monte_carlo_gui>>

\* ok(val): the OK button of the open dialog
WaveguideGUI_ok ==
    /\ waveguide_gui.pc = "exec_"
    /\ waveguide_gui' = [waveguide_gui EXCEPT !.clicked = TRUE, !.pc = "ok"]
    /\ UNCHANGED <<components, lists, technology_name, pin, ret, monte_carlo_gui>>

\* close(val): the Cancel button of the open dialog
WaveguideGUI_close ==
    /\ waveguide_gui.pc = "exec_"
    /\ waveguide_gui' = [waveguide_gui EXCEPT !.clicked = FALSE, !.pc = "close"]
    /\ UNCHANGED <<components, lists, technology_name, pin, ret, monte_carlo_gui>>

\* window.exec_() returns and get_parameters runs to its end
WaveguideGUI_exec_returns ==
    /\ waveguide_gui.pc \in {"ok", "close"}
    /\ LET r == WaveguideGUI_result(waveguide_gui, technology_name)
       IN  /\ waveguide_gui' = [r.gui EXCEPT !.pc = "idle"]
           /\ ret' = r.ret
    /\ UNCHANGED <<components, lists, technology_name, pin, monte_carlo_gui>>

\* the user picks another waveguide type in the open dialog
WaveguideGUI_select(name) ==
    /\ waveguide_gui.pc = "exec_"
    /\ \E k \in 1..Len(waveguide_gui.configuration.items) :
          waveguide_gui.configuration.items[k] = name
    /\ name # waveguide_gui.configuration.currentText
    /\ waveguide_gui' = WaveguideGUI_config_changed(
           [waveguide_gui EXCEPT !.configuration.currentText = name])
    /\ UNCHANGED <<components, lists, technology_name, pin, ret, monte_carlo_gui>>

\* the user types a text into the width field of the open dialog
WaveguideGUI_edit(text) ==
    /\ waveguide_gui.pc = "exec_"
    /\ text # waveguide_gui.width
    /\ waveguide_gui' = [waveguide_gui EXCEPT !.width = text]
    /\ UNCHANGED <<components, lists, technology_name, pin, ret, monte_carlo_gui>>

\* MonteCarloGUI(): the object __init__ leaves
NewMonteCarloGUI ==
    [ loaded_technology |-> <<>>,
      clicked           |-> TRUE,
      montecarlos       |-> NoList,
      technology        |-> EmptyComboBox,
      std_dev           |-> <<>>,
      pc                |-> "idle" ]

\* tech_changed(val), the slot of technology.currentIndexChanged: the
\* std_dev field takes the value of the selected record, if there is one;
\* where self.montecarlos cannot be iterated the slot raises and ends
MonteCarloGUI_tech_changed(g) ==
    IF ~g.montecarlos.list THEN g
    ELSE LET options == ByName(g.montecarlos, g.technology.currentText)
         IN  IF options = <<>> THEN g
             ELSE [g EXCEPT !.std_dev = options[1].std_dev]

\* update(): [gui, exc]; self.montecarlos is assigned, the names are read
\* (TypeError where the table cannot be iterated), then the combo box is
\* cleared and filled, its first item the current one
MonteCarloGUI_update(g, tech_name) ==
    LET loaded  == [g EXCEPT !.montecarlos = load_Monte_Carlo(tech_name)]
        cleared == IF loaded.technology.items = <<>> THEN loaded
                   ELSE MonteCarloGUI_tech_changed(
                            [loaded EXCEPT !.technology = EmptyComboBox])
        names   == Names(loaded.montecarlos)
    IN  IF ~loaded.montecarlos.list
        THEN [gui |-> loaded, exc |-> "TypeError"]
        ELSE IF names = <<>>
        THEN [gui |-> cleared, exc |-> "none"]
        ELSE [gui |-> MonteCarloGUI_tech_changed(
                          [cleared EXCEPT !.technology =
                               [items |-> names, currentText |-> names[1]]]),
              exc |-> "none"]

\* get_parameters from "if not self.clicked" on: the outcome of the call
MonteCarloGUI_result(g) ==
    IF ~g.clicked
    THEN Return("MonteCarloGUI.get_parameters", None)
    ELSE LET s == float(g.std_dev)
         IN  IF ~s.ok
             THEN Raise("MonteCarloGUI.get_parameters", "ValueError")
             ELSE Return("MonteCarloGUI.get_parameters",
                         [ technology |-> g.technology.currentText,
                           std_dev    |-> s.v ])

\* monte_carlo_gui.get_parameters() up to window.exec_(): update() when
\* another technology is loaded, loaded_technology assigned after it, then
\* the dialog in every case
MonteCarloGUI_get_parameters ==
    /\ Idle
    /\ IF monte_carlo_gui.loaded_technology # technology_name
       THEN LET u == MonteCarloGUI_update(monte_carlo_gui, technology_name)
            IN  IF u.exc # "none"
                THEN /\ monte_carlo_gui' = u.gui
                     /\ ret' = Raise("MonteCarloGUI.get_parameters", u.exc)
                ELSE /\ monte_carlo_gui' =
                            [u.gui EXCEPT !.loaded_technology = technology_name,
                                          !.pc = "exec_"]
                     /\ ret' = ret
       ELSE /\ monte_carlo_gui' = [monte_carlo_gui EXCEPT !.pc = "exec_"]
            /\ ret' = ret
    /\ UNCHANGED <<components, lists, technology_name, pin, waveguide_gui>>

\* ok(val): the Run button of the open dialog
MonteCarloGUI_ok ==
    /\ monte_carlo_gui.pc = "exec_"
    /\ monte_carlo_gui' = [monte_carlo_gui EXCEPT !.clicked = TRUE, !.pc = "ok"]
    /\ UNCHANGED <<components, lists, technology_name, pin, ret, waveguide_gui>>

\* close(val): the Cancel button of the open dialog
MonteCarloGUI_close ==
    /\ monte_carlo_gui.pc = "exec_"
    /\ monte_carlo_gui' = [monte_carlo_gui EXCEPT !.clicked = FALSE, !.pc = "close"]
    /\ UNCHANGED <<components, lists, technology_name, pin, ret, waveguide_gui>>

\* window.exec_() returns and get_parameters runs to its end
MonteCarloGUI_exec_returns ==
    /\ monte_carlo_gui.pc \in {"ok", "close"}
    /\ monte_carlo_gui' = [monte_carlo_gui EXCEPT !.pc = "idle"]
    /\ ret' = MonteCarloGUI_result(monte_carlo_gui)
    /\ UNCHANGED <<components, lists, technology_name, pin, waveguide_gui>>

\* the user picks another record in the technology box of the open dialog
MonteCarloGUI_select(name) ==
    /\ monte_carlo_gui.pc = "exec_"
    /\ \E k \in 1..Len(monte_carlo_gui.technology.items) :
          monte_carlo_gui.technology.items[k] = name
    /\ name # monte_carlo_gui.technology.currentText
    /\ monte_carlo_gui' = MonteCarloGUI_tech_changed(
           [monte_carlo_gui EXCEPT !.technology.currentText = name])
    /\ UNCHANGED <<components, lists, technology_name, pin, ret, waveguide_gui>>

\* the user types a text into the std_dev field of the open dialog
MonteCarloGUI_edit(text) ==
    /\ monte_carlo_gui.pc = "exec_"
    /\ text # monte_carlo_gui.std_dev
    /\ monte_carlo_gui' = [monte_carlo_gui EXCEPT !.std_dev = text]
    /\ UNCHANGED <<components, lists, technology_name, pin, ret, waveguide_gui>>

\* the texts a user types into a field, and the names a user may pick
FieldTexts == { <<>>, <<"1", ".", "2">> }
RecordNames ==
    { <<"S", "t", "r", "i", "p">>, <<"R", "i", "b">>, <<"S", "i", "N">>,
      <<"E", "B">>, <<"E", "B", "2">> }

(***************************************************************************)
(* SpecParams: a Component constructed with a params string, and calls of  *)
(* params_dict on it.                                                      *)
(***************************************************************************)
NoPin == [state |-> "none"]

InitParams ==
    /\ \E p \in ParamInputs :
          components = << NewComponent(<<"W", "g">>, NoneStr, p, DefaultPins,
                                       << <<>> >>, DefaultPolygon) >>
    /\ lists = << <<>> >>
    /\ technology_name = <<"E", "B">>
    /\ pin = NoPin
    /\ waveguide_gui = NewWaveguideGUI
    /\ monte_carlo_gui = NewMonteCarloGUI
    /\ ret = NoCall

NextParams == \E i \in 1..Len(components) : Component_params_dict(i)

SpecParams == InitParams /\ [][NextParams]_vars


(***************************************************************************)
(* The reference rule of params_dict, stated on the string as a whole.     *)
(***************************************************************************)
\* the tokens: the maximal runs of characters other than the space,
\* each as <<first, last>>
RefTokenSpans(p) ==
    { sp \in (1..Len(p)) \X (1..Len(p)) :
        /\ sp[1] <= sp[2]
        /\ \A k \in sp[1]..sp[2] : p[k] # " "
        /\ (sp[1] = 1 \/ p[sp[1] - 1] = " ")
        /\ (sp[2] = Len(p) \/ p[sp[2] + 1] = " ") }

\* a token of the form key=value has one '='
EqualSigns(t) == { i \in 1..Len(t) : t[i] = "=" }
KeyValueForm(t) == Cardinality(EqualSigns(t)) = 1
RefKey(t) == SubSeq(t, 1, (CHOOSE i \in EqualSigns(t) : TRUE) - 1)
RefText(t) == SubSeq(t, (CHOOSE i \in EqualSigns(t) : TRUE) + 1, Len(t))

\* 'u' written as 'e-6' and 'n' as 'e-9', character by character
RECURSIVE RefSuffixes(_)
RefSuffixes(v) ==
    IF v = <<>> THEN <<>>
    ELSE (CASE Head(v) = "u" -> <<"e", "-", "6">>
            [] Head(v) = "n" -> <<"e", "-", "9">>
            [] OTHER -> <<Head(v)>>) \o RefSuffixes(Tail(v))

\* the value the rule gives for the text v: [ok, q], not ok where the text is
\* no integer (first case) or no decimal number (last case)
RefValue(v) ==
    IF \A i \in 1..Len(v) : v[i] \notin {".", "e", "E"}
    THEN [ok |-> IsIntLiteral(v),
          q |-> IF IsIntLiteral(v) THEN IntVal(IntLiteralValue(v)) ELSE IntVal(0)]
    ELSE IF \E i \in 1..Len(v) : v[i] = "["
    THEN [ok |-> TRUE, q |-> StrVal(v)]
    ELSE LET d == Decimal(RefSuffixes(v))
         IN  [ok |-> d.ok,
              q |-> IF d.ok THEN FloatVal(d.m, d.e + 6) ELSE IntVal(0)]

RefWellFormed(p) ==
    \A sp \in RefTokenSpans(p) : KeyValueForm(SubSeq(p, sp[1], sp[2]))

RefDefined(p) ==
    \A sp \in RefTokenSpans(p) : RefValue(RefText(SubSeq(p, sp[1], sp[2]))).ok

\* the mapping: each key to the value of the last token that names it
RefMap(p) ==
    LET spans == RefTokenSpans(p)
        tok(sp) == SubSeq(p, sp[1], sp[2])
        keys == { RefKey(tok(sp)) : sp \in spans }
        last(k) == CHOOSE sp \in spans :
                       /\ RefKey(tok(sp)) = k
                       /\ \A o \in spans : RefKey(tok(o)) = k => o[1] <= sp[1]
    IN  [ k \in keys |-> RefValue(RefText(tok(last(k)))).q ]

\* C1: whatever the params string, params_dict returns what the reference
\* rule gives: the empty mapping, and no exception, for params empty or
\* unset; and for a string whose tokens are all of the form key=value, the
\* mapping of each key to int(value), to the literal value, or to the value
\* with its unit suffix in micrometres, an exception being raised exactly
\* when some value is no number of the kind the rule reads it as.
C1_ParamsDictRule ==
    ret.op = "params_dict" =>
        LET p == components[1].params
        IN  /\ (p = NoneStr \/ p = <<>>) => ret = Return("params_dict", <<>>)
            /\ (p # NoneStr /\ RefWellFormed(p)) =>
                  /\ ret.exc = "none" <=> RefDefined(p)
                  /\ RefDefined(p) => ret.val = RefMap(p)

\* C1's case: two tokens apart by two spaces, an integer and a value with a
\* unit suffix, parsed into a mapping of two keys
C1_Witness ==
    /\ ret.op = "params_dict" /\ ret.exc = "none"
    /\ components[1].params =
          <<"a", "=", "5", " ", " ", "b", "=", "1", ".", "5", "u">>
    /\ DOMAIN ret.val = { <<"a">>, <<"b">> }
    /\ ret.val[<<"b">>] = FloatVal(15, -1)

\* the worked examples of the specification
Example1 ==
    <<"a", "=", "5", " ", "b", "=", "1", ".", "5", "u", " ",
      "c", "=", "[", "1", ",", "2", ",", "3", "]">>
Example2 ==
    <<"w", "g", "_", "w", "i", "d", "t", "h", "=", "0", ".", "5", " ",
      "r", "a", "d", "i", "u", "s", "=", "5", "u">>

\* C2: params_dict returns what the worked examples state:
\* "a=5 b=1.5u c=[1,2,3]" gives {a: 5, b: 1.5, c: "[1,2,3]"} and
\* "wg_width=0.5 radius=5u" gives {wg_width: 0.5, radius: 5.0}, no exception.
C2_WorkedExamples ==
    ret.op = "params_dict" =>
        /\ components[1].params = Example1 =>
              ret = Return("params_dict",
                           (<<"a">> :> IntVal(5)) @@ (<<"b">> :> FloatVal(15, -1))
                             @@ (<<"c">> :> StrVal(<<"[", "1", ",", "2", ",", "3", "]">>)))
        /\ components[1].params = Example2 =>
              ret = Return("params_dict",
                           (<<"w", "g", "_", "w", "i", "d", "t", "h">> :> FloatVal(5, -1))
                             @@ (<<"r", "a", "d", "i", "u", "s">> :> FloatVal(5, 0)))


(***************************************************************************)
(* Spec: Components are constructed, their pins lists and polygon fields   *)
(* are changed by the code around them, and display() is called.           *)
(***************************************************************************)
Init ==
    /\ components = <<>>
    /\ lists = << <<>> >>
    /\ technology_name = <<"E", "B">>
    /\ pin = NoPin
    /\ waveguide_gui = NewWaveguideGUI
    /\ monte_carlo_gui = NewMonteCarloGUI
    /\ ret = NoCall

Next ==
    \/ \E pa \in PinsArgs, poly \in Polygons \cup {None} :
          Component__init__(<<"W", "g">>, NoneStr, NoneStr, pa, poly)
    \/ \E i \in 1..MaxComponents, p \in PinNames : AppendPin(i, p)
    \/ \E i \in 1..MaxComponents : RemovePin(i)
    \/ \E i \in 1..MaxComponents, poly \in Polygons : SetPolygon(i, poly)
    \/ \E i \in 1..MaxComponents : Component_display(i)

Spec == Init /\ [][Next]_vars

(***************************************************************************)
(* SpecModel: Components of every identity, has_model() called on them,    *)
(* the active technology changing.                                         *)
(***************************************************************************)
NextModel ==
    \/ \E c \in ComponentNames, l \in Libraries :
          Component__init__(c, l, NoneStr, [passed |-> FALSE, items |-> <<>>],
                            DefaultPolygon)
    \/ \E i \in 1..MaxComponents : Component_has_model(i)
    \/ \E t \in Technologies : ChangeTechnology(t)

SpecModel == Init /\ [][NextModel]_vars

\* C3: Components constructed without passing pins each hold a pins
\* collection of their own: an append to the pins of one Component leaves
\* the pins of every other Component as they were.
C3_OwnPinsCollection ==
    [][ \A i \in 1..MaxComponents, p \in PinNames :
            AppendPin(i, p) =>
                \A j \in 1..Len(components) :
                    j # i => lists'[components'[j].pins] = lists[components[j].pins]
      ]_vars

\* C4: in every reachable state, npins of a Component is the length of its
\* pins collection.
C4_NpinsIsLenPins ==
    \A i \in 1..Len(components) :
        components[i].npins = Len(lists[components[i].pins])

\* C5: in every reachable state, center of a Component is the center of the
\* bounding box of its current polygon, and Dcenter that center scaled by
\* the database unit.
C5_CenterIsBBoxCenter ==
    \A i \in 1..Len(components) :
        /\ components[i].center = center(bbox(components[i].polygon))
        /\ components[i].Dcenter = to_dtype(center(bbox(components[i].polygon)), dbu)

\* the key of C7: by the library when the library is set, by the active
\* technology when it is not
C7_Key(c, tech) ==
    IF Truthy(c.library)
    THEN replace(lower(c.library), "/", <<":", ":">>) \o <<":", ":">>
             \o lower(c.component)
    ELSE <<"d", "e", "s", "i", "g", "n", " ", "k", "i", "t", "s", ":", ":">>
             \o lower(tech) \o <<":", ":">> \o lower(c.component)

\* C7: has_model() raises nothing, returns whether the composed key is in
\* the registry of models, and changes nothing of the Component.
C7_HasModelIsKeyLookup ==
    [][ \A i \in 1..MaxComponents :
            Component_has_model(i) =>
                /\ ret'.exc = "none"
                /\ ret'.val = (C7_Key(components[i], technology_name) \in INTC_ELEMENTS)
                /\ components' = components
      ]_vars

\* C11: display() is read-only: a call of display() on a Component leaves
\* every field of every Component, npins among them, and every pins
\* collection as they were, and returns the report text.
C11_DisplayReadOnly ==
    [][ \A i \in 1..MaxComponents :
            Component_display(i) =>
                /\ components' = components
                /\ lists' = lists
                /\ ret'.op = "display" /\ ret'.exc = "none"
      ]_vars


(***************************************************************************)
(* Pin                                                                     *)
(***************************************************************************)
\* an attribute the object does not have (never assigned)
Unset == [unset |-> TRUE]

\* pya.Path, by its points
Path(pts) == [pts |-> pts]

\* _globals.NET_DISCONNECTED: one Net object of the process
NET_DISCONNECTED == [net |-> "NET_DISCONNECTED"]

\* utils.angle_vector(u) = (180 / pi) * atan2(u.y, u.x), in degrees, for the
\* vectors along the axes and the diagonals; atan2(0, 0) is 0
angle_vector(u) ==
    CASE u.y = 0 /\ u.x >= 0   -> 0
      [] u.y = u.x /\ u.x > 0  -> 45
      [] u.x = 0 /\ u.y > 0    -> 90
      [] u.y = -u.x /\ u.y > 0 -> 135
      [] u.y = 0 /\ u.x < 0    -> 180
      [] u.y = u.x /\ u.x < 0  -> -135
      [] u.x = 0 /\ u.y < 0    -> -90
      [] u.y = -u.x /\ u.y < 0 -> -45

\* pya.Point + pya.Point, pya.Point - pya.Point
PointAdd(p, q) == Point(p.x + q.x, p.y + q.y)
PointSub(p, q) == Point(p.x - q.x, p.y - q.y)

\* half of n, rounded to an integer, halves away from zero
RoundHalf(n) == IF n >= 0 THEN (n + 1) \div 2 ELSE -((1 - n) \div 2)

\* pya.Point * 0.5: the coordinates scaled and rounded to integers
PointHalf(p) == Point(RoundHalf(p.x), RoundHalf(p.y))

\* (pts[0] + pts[1]) * 0.5
PathCenter(pts) == PointHalf(PointAdd(pts[1], pts[2]))

\* angle_vector(pts[1] - pts[0])
PathRotation(pts) == angle_vector(PointSub(pts[2], pts[1]))

\* pya.Trans: mirror at the x axis, then rotate by rot * 90 degrees, then
\* displace by (dx, dy)
Trans(rot, mirror, dx, dy) == [rot |-> rot, mirror |-> mirror, dx |-> dx, dy |-> dy]

RECURSIVE Rotate90(_, _)
Rotate90(p, n) == IF n = 0 THEN p ELSE Rotate90(Point(-p.y, p.x), n - 1)

TransPoint(t, p) ==
    LET q == Rotate90(IF t.mirror THEN Point(p.x, -p.y) ELSE p, t.rot)
    IN  Point(q.x + t.dx, q.y + t.dy)

\* path.transformed(trans), polygon.transformed(trans)
TransPoints(t, pts) == [i \in 1..Len(pts) |-> TransPoint(t, pts[i])]

\* box.transformed(trans): the box of the transformed corners
TransBox(t, b) ==
    LET p == TransPoint(t, Point(b.l, b.b))
        q == TransPoint(t, Point(b.r, b.t))
    IN  Box(IF p.x < q.x THEN p.x ELSE q.x, IF p.y < q.y THEN p.y ELSE q.y,
            IF p.x < q.x THEN q.x ELSE p.x, IF p.y < q.y THEN q.y ELSE p.y)

\* the net __init__ stores
PinNet_keep(net) == net

PinNet(net) == IF net # None THEN net ELSE NET_DISCONNECTED

\* the object Pin(path=.., _type=.., box=.., polygon=.., net=..) leaves.
\* A path without exactly 2 points: the message is printed, rotation is set
\* to 0, and __init__ returns before box and center are assigned.
\* (rotation is assigned on every way through __init__.)
NewPin(path, type, box, polygon, net) ==
    LET base == [ state    |-> "constructed",
                  type     |-> type,
                  net      |-> PinNet(net),
                  path     |-> path,
                  polygon  |-> polygon,
                  box      |-> Unset,
                  center   |-> Unset,
                  rotation |-> 0 ]
    IN  IF path # None /\ Len(path.pts) # 2
        THEN base
        ELSE LET c1 == IF path # None THEN PathCenter(path.pts) ELSE Unset
                 r1 == IF path # None THEN PathRotation(path.pts) ELSE 0
                 c2 == IF box # None THEN center(box) ELSE c1
             IN  [base EXCEPT
                    !.box      = box,
                    !.rotation = IF polygon # None THEN 0 ELSE r1,
                    !.center   = IF polygon # None THEN center(bbox(polygon))
                                 ELSE c2]

\* a call of the constructor
Pin__init__(path, type, box, polygon, net) ==
    /\ pin' = NewPin(path, type, box, polygon, net)
    /\ ret' = Return("Pin", None)
    /\ UNCHANGED <<components, lists, technology_name, waveguide_gui, monte_carlo_gui>>

\* transform(trans) with the rotation left as it was
Transformed_stale_rotation(p, t) ==
    IF p.path # None
    THEN [p EXCEPT !.path = Path(TransPoints(t, p.path.pts)),
                   !.center = PathCenter(TransPoints(t, p.path.pts))]
    ELSE IF p.polygon # None
    THEN [p EXCEPT !.polygon = Polygon(TransPoints(t, p.polygon.pts)),
                   !.center = center(bbox(Polygon(TransPoints(t, p.polygon.pts))))]
    ELSE p

\* the object after self.transform(trans) has run to its end: the path and
\* the polygon are moved, the box is not
Transformed(p, t) ==
    LET a == IF p.path # None
             THEN [p EXCEPT !.path = Path(TransPoints(t, p.path.pts)),
                            !.center = PathCenter(TransPoints(t, p.path.pts)),
                            !.rotation = PathRotation(TransPoints(t, p.path.pts))]
             ELSE p
    IN  IF a.polygon # None
        THEN [a EXCEPT !.polygon = Polygon(TransPoints(t, a.polygon.pts)),
                       !.center = center(bbox(Polygon(TransPoints(t, a.polygon.pts)))),
                       !.rotation = 0]
        ELSE a

\* coordinates the model follows a Pin to
MaxCoord == 8

InWindow(pts) ==
    \A i \in 1..Len(pts) :
        /\ pts[i].x \in -MaxCoord..MaxCoord
        /\ pts[i].y \in -MaxCoord..MaxCoord

\* a call of pin.transform(trans).  A path of fewer than 2 points: pts[1]
\* raises IndexError, after self.path has been assigned.
Pin_transform(t) ==
    /\ pin.state = "constructed"
    /\ pin.path # None => InWindow(TransPoints(t, pin.path.pts))
    /\ pin.polygon # None => InWindow(TransPoints(t, pin.polygon.pts))
    /\ IF pin.path # None /\ Len(pin.path.pts) < 2
       THEN /\ pin' = [pin EXCEPT !.path = Path(TransPoints(t, pin.path.pts))]
            /\ ret' = Raise("transform", "IndexError")
       ELSE /\ pin' = Transformed(pin, t)
            /\ ret' = Return("transform", None)
    /\ UNCHANGED <<components, lists, technology_name, waveguide_gui, monte_carlo_gui>>

(***************************************************************************)
(* SpecPin: a Pin is constructed from any combination of geometries and    *)
(* transformed any number of times.  Pins share no state that changes, so  *)
(* a behaviour follows one Pin.                                            *)
(***************************************************************************)
\* _globals.PIN_TYPES
PIN_TYPES == {"OPTICAL", "ELECTRICAL", "OPTICALIO"}

PinPaths ==
    { None,
      Path(<<>>),
      Path(<<Point(0, 0)>>),
      Path(<<Point(0, 0), Point(2, 0)>>),
      Path(<<Point(0, 0), Point(1, 0)>>),
      Path(<<Point(1, 1), Point(-2, -2)>>),
      Path(<<Point(0, 0), Point(2, 0), Point(2, 2)>>) }

PinBoxes == { None, Box(0, 0, 2, 4), Box(-3, -1, 0, 0) }

PinPolygons == { None, Polygon(<<Point(2, 2), Point(6, 2), Point(6, 8)>>) }

\* the Net objects callers pass, beside None
PinNets == { None, [net |-> "net1"] }

PinTransforms ==
    { Trans(1, FALSE, 0, 0), Trans(0, TRUE, 0, 0), Trans(0, FALSE, 4, 0),
      Trans(2, FALSE, 0, -4) }

InitPin ==
    /\ components = <<>>
    /\ lists = << <<>> >>
    /\ technology_name = <<"E", "B">>
    /\ pin = NoPin
    /\ waveguide_gui = NewWaveguideGUI
    /\ monte_carlo_gui = NewMonteCarloGUI
    /\ ret = NoCall

NextPin ==
    \/ /\ pin = NoPin
       /\ \E path \in PinPaths, type \in PIN_TYPES, box \in PinBoxes,
             polygon \in PinPolygons, net \in PinNets :
             Pin__init__(path, type, box, polygon, net)
    \/ \E t \in PinTransforms : Pin_transform(t)

SpecPin == InitPin /\ [][NextPin]_vars


\* C6: a Pin constructed from a path that does not have exactly 2 points is
\* signaled to the caller: no constructor call given such a path returns
\* normally, leaving a Pin.
C6_InvalidPathSignaled ==
    (ret.op = "Pin" /\ ret.exc = "none") =>
        (pin.path = None \/ Len(pin.path.pts) = 2)

\* which geometry a Pin has
HasPath(p) == p.path # None
HasBox(p) == p.box # None /\ p.box # Unset
HasPolygon(p) == p.polygon # None

\* a Pin made from exactly one geometry, a path having 2 points
PathPin(p) ==
    p.state = "constructed" /\ HasPath(p) /\ Len(p.path.pts) = 2
        /\ ~HasBox(p) /\ ~HasPolygon(p)
BoxPin(p) == p.state = "constructed" /\ HasBox(p) /\ ~HasPath(p) /\ ~HasPolygon(p)
PolygonPin(p) ==
    p.state = "constructed" /\ HasPolygon(p) /\ ~HasPath(p) /\ ~HasBox(p)

\* C8: transform(T) moves the geometry of a Pin of every kind and raises
\* nothing: afterwards center is the center of the geometry moved by T, of
\* the path, of the box or of the polygon.
C8_TransformMovesGeometry ==
    [][ \A t \in PinTransforms :
            Pin_transform(t) =>
                /\ PathPin(pin) =>
                      /\ ret'.exc = "none"
                      /\ pin'.center = PathCenter(TransPoints(t, pin.path.pts))
                /\ BoxPin(pin) =>
                      /\ ret'.exc = "none"
                      /\ pin'.center = center(TransBox(t, pin.box))
                /\ PolygonPin(pin) =>
                      /\ ret'.exc = "none"
                      /\ pin'.center =
                            center(bbox(Polygon(TransPoints(t, pin.polygon.pts))))
      ]_vars

\* c is half of s exactly
IsHalf(c, s) == 2 * c = s

\* c is half of s, a half rounded away from zero
IsRoundedHalf(c, s) ==
    \/ s % 2 = 0 /\ 2 * c = s
    \/ s % 2 = 1 /\ s > 0 /\ 2 * c = s + 1
    \/ s % 2 = 1 /\ s < 0 /\ 2 * c = s - 1

\* what C9 says of the Pins made from a box or from a polygon
C9_BoxAndPolygonPins ==
    /\ BoxPin(pin) => pin.rotation = 0 /\ pin.center = center(pin.box)
    /\ PolygonPin(pin) =>
          pin.rotation = 0 /\ pin.center = center(bbox(pin.polygon))

\* C9 as stated: in every state of a Pin made from one valid geometry, the
\* center of a Pin with a path is the midpoint of the two points and its
\* rotation the angle from point 0 to point 1; a Pin with a box has
\* rotation 0 and the center of its box; a Pin with a polygon has rotation
\* 0 and the center of the bounding box of its polygon.
C9_Original ==
    /\ PathPin(pin) =>
          /\ IsHalf(pin.center.x, pin.path.pts[1].x + pin.path.pts[2].x)
          /\ IsHalf(pin.center.y, pin.path.pts[1].y + pin.path.pts[2].y)
          /\ pin.rotation = angle_vector(PointSub(pin.path.pts[2], pin.path.pts[1]))
    /\ C9_BoxAndPolygonPins

\* C9, amended: the same, with the center of a Pin with a path being the
\* midpoint of the two points rounded to the integer grid of the database,
\* a half away from zero.
C9_CenterAndRotation ==
    /\ PathPin(pin) =>
          /\ IsRoundedHalf(pin.center.x, pin.path.pts[1].x + pin.path.pts[2].x)
          /\ IsRoundedHalf(pin.center.y, pin.path.pts[1].y + pin.path.pts[2].y)
          /\ pin.rotation = angle_vector(PointSub(pin.path.pts[2], pin.path.pts[1]))
    /\ C9_BoxAndPolygonPins

\* C9's case: an OPTICAL Pin made from the path (0,0)-(1,0) and turned by 90
\* degrees, its center and rotation recomputed from the path (0,0)-(0,1)
C9_Witness ==
    /\ PathPin(pin) /\ pin.type = "OPTICAL" /\ ret.op = "transform"
    /\ pin.path.pts = <<Point(0, 0), Point(0, 1)>>
    /\ pin.center = Point(0, 1)
    /\ pin.rotation = 90

\* C10: the net of a Pin is never None: a Pin constructed without a net
\* refers to the one NET_DISCONNECTED object, a Pin constructed with a Net
\* refers to that Net, and transform leaves the net as it is.
C10_NetNeverNull ==
    /\ [](pin.state = "constructed" => pin.net # None)
    /\ [][ /\ \A path \in PinPaths, type \in PIN_TYPES, box \in PinBoxes,
                polygon \in PinPolygons, net \in PinNets :
                Pin__init__(path, type, box, polygon, net) =>
                    pin'.net = (IF net = None THEN NET_DISCONNECTED ELSE net)
           /\ \A t \in PinTransforms : Pin_transform(t) => pin'.net = pin.net
         ]_vars

\* C10's case: a Pin constructed without a net and transformed, its net
\* the disconnected Net
C10_Witness ==
    /\ PathPin(pin) /\ ret.op = "transform" /\ ret.exc = "none"
    /\ pin.net = NET_DISCONNECTED

(***************************************************************************)
(* SpecGUI: get_parameters is called on the two dialog objects, the user   *)
(* works in the open dialog and dismisses it with OK/Run or with Cancel,   *)
(* and the active technology changes between the calls.                    *)
(***************************************************************************)
NextGUI ==
    \/ \E show \in BOOLEAN : WaveguideGUI_get_parameters(show)
    \/ WaveguideGUI_ok
    \/ WaveguideGUI_close
    \/ WaveguideGUI_exec_returns
    \/ \E name \in RecordNames : WaveguideGUI_select(name)
    \/ \E text \in FieldTexts : WaveguideGUI_edit(text)
    \/ MonteCarloGUI_get_parameters
    \/ MonteCarloGUI_ok
    \/ MonteCarloGUI_close
    \/ MonteCarloGUI_exec_returns
    \/ \E name \in RecordNames : MonteCarloGUI_select(name)
    \/ \E text \in FieldTexts : MonteCarloGUI_edit(text)
    \/ (Idle /\ \E tech \in GUITechnologies : ChangeTechnology(tech))

SpecGUI == Init /\ [][NextGUI]_vars

\* a call returned the null result; a call returned a parameter record
ReturnsNull(r) == r.exc = "none" /\ r.val = None
ReturnsRecord(r) == r.exc = "none" /\ r.val # None

\* C12: a get_parameters call of either dialog that returns (a call that
\* raises is an error of the configuration or of a field, not a result)
\* returns the null result exactly when the dialog was dismissed with Cancel
\* during that call, and a parameter record when it was dismissed with
\* OK/Run: whatever earlier calls left in clicked and loaded_technology, a
\* call returning from a dialog closed by Cancel returns null, one returning
\* from a dialog closed by OK/Run returns a record, and a call that showed
\* no dialog does not return null.
C12_ResultIsThisDismissal ==
    [][ /\ (WaveguideGUI_exec_returns /\ ret'.exc = "none") =>
              /\ waveguide_gui.pc = "close" => ReturnsNull(ret')
              /\ waveguide_gui.pc = "ok" => ReturnsRecord(ret')
        /\ (MonteCarloGUI_exec_returns /\ ret'.exc = "none") =>
              /\ monte_carlo_gui.pc = "close" => ReturnsNull(ret')
              /\ monte_carlo_gui.pc = "ok" => ReturnsRecord(ret')
        /\ \A show \in BOOLEAN :
              WaveguideGUI_get_parameters(show) /\ waveguide_gui'.pc = "idle" =>
                  ~ReturnsNull(ret')
      ]_vars

=============================================================================
